---- MODULE Spec2Model ----
(***************************************************************************)
(* A model of csv_cleaning.py (class CSVCleaner): the encoding fallback of *)
(* the reader, the column normaliser, the date and numeric coercions, the  *)
(* validator, and the per-file / per-directory orchestration with its      *)
(* statistics accumulator.                                                 *)
(*                                                                         *)
(* Text is modelled as sequences of one-character strings, file content as *)
(* sequences of byte values, decoded text as sequences of code points.     *)
(* Header labels are records [pre, body, post]: pre spaces, a body without *)
(* surrounding whitespace, post spaces.                                    *)
(***************************************************************************)
EXTENDS Integers, Sequences, FiniteSets, TLC

VARIABLES
    chunk_size,   \* CSVCleaner.chunk_size: 0 models None
    stats,        \* CSVCleaner.stats
    csv_files,    \* clean_directory: the files matched by the glob
    out_files,    \* the output directory: index of the input file -> state of cleaned_<name>
    pc,           \* position of the directory run
    idx,          \* clean_directory: loop index into csv_files
    df,           \* clean_csv: the DataFrame in flight
    calls,        \* history of finished clean_csv calls (observation only)
    rd_in, rd_out,       \* one call of read_csv_with_fallback
    date_in, date_out,   \* one call of parse_date_flexible
    hdr_in, hdr_out,     \* clean_column_names then filter_and_rename_columns
    num_in, num_out,     \* one call of process_numeric_columns
    val_in, val_out      \* string/date/numeric cleaning, then validate_data

vars == <<chunk_size, stats, csv_files, out_files, pc, idx, df, calls,
          rd_in, rd_out, date_in, date_out, hdr_in, hdr_out,
          num_in, num_out, val_in, val_out>>

dirVars  == <<stats, csv_files, out_files, pc, idx, df, calls>>
readVars == <<rd_in, rd_out>>
dateVars == <<date_in, date_out>>
hdrVars  == <<hdr_in, hdr_out>>
numVars  == <<num_in, num_out>>
valVars  == <<val_in, val_out>>
pureVars == <<readVars, dateVars, hdrVars, numVars, valVars>>

None == "None"

(***************************************************************************)
(* Bounds of the model.                                                    *)
(***************************************************************************)
MaxBytes == 2      \* longest file content drawn for the reader
MaxFiles == 3      \* most files a directory listing holds
MaxValLen == 5     \* longest raw numeric cell
MaxRows == 2       \* most rows of a validated frame
MaxHeader == 3     \* most labels of a header

(***************************************************************************)
(* Generic helpers.                                                        *)
(***************************************************************************)
SeqsUpTo(S, n) == UNION { [1..k -> S] : k \in 0..n }

Range(s) == { s[i] : i \in DOMAIN s }

RECURSIVE SelectIdx(_, _, _)
\* the subsequence of s at the indices i >= from with keep[i]
SelectIdx(s, keep, from) ==
    IF from > Len(s) THEN <<>>
    ELSE (IF keep[from] THEN <<s[from]>> ELSE <<>>) \o SelectIdx(s, keep, from + 1)

(***************************************************************************)
(* Codecs.  Bytes are 0..255, decoded text is a sequence of code points.   *)
(***************************************************************************)
DecodeFail == [ok |-> FALSE, text |-> <<>>]
Decoded(t) == [ok |-> TRUE, text |-> t]

\* Python codec lookup: the aliases chardet reports name the same codecs.
CodecOf(name) ==
    CASE name = "ISO-8859-1" -> "latin1"
      [] name = "Windows-1252" -> "cp1252"
      [] OTHER -> name

RECURSIVE DecodeAscii(_)
DecodeAscii(b) ==
    IF b = <<>> THEN Decoded(<<>>)
    ELSE IF b[1] >= 128 THEN DecodeFail
    ELSE LET rest == DecodeAscii(Tail(b))
         IN IF rest.ok THEN Decoded(<<b[1]>> \o rest.text) ELSE DecodeFail

IsCont(x) == x >= 128 /\ x <= 191

Utf8Len(lead) ==
    CASE lead < 128 -> 1
      [] lead >= 194 /\ lead <= 223 -> 2
      [] lead >= 224 /\ lead <= 239 -> 3
      [] lead >= 240 /\ lead <= 244 -> 4
      [] OTHER -> 0

RECURSIVE DecodeUtf8(_)
DecodeUtf8(b) ==
    IF b = <<>> THEN Decoded(<<>>)
    ELSE LET n == Utf8Len(b[1])
         IN IF n = 0 \/ Len(b) < n THEN DecodeFail
            ELSE IF \E k \in 2..n : ~IsCont(b[k]) THEN DecodeFail
            ELSE IF (b[1] = 224 /\ b[2] < 160) \/ (b[1] = 237 /\ b[2] > 159)
                    \/ (b[1] = 240 /\ b[2] < 144) \/ (b[1] = 244 /\ b[2] > 143)
                 THEN DecodeFail
            ELSE LET cp == CASE n = 1 -> b[1]
                             [] n = 2 -> (b[1] - 192) * 64 + (b[2] - 128)
                             [] n = 3 -> (b[1] - 224) * 4096 + (b[2] - 128) * 64
                                         + (b[3] - 128)
                             [] n = 4 -> (b[1] - 240) * 262144 + (b[2] - 128) * 4096
                                         + (b[3] - 128) * 64 + (b[4] - 128)
                     rest == DecodeUtf8(SubSeq(b, n + 1, Len(b)))
                 IN IF rest.ok THEN Decoded(<<cp>> \o rest.text) ELSE DecodeFail

\* latin1 maps every byte to the code point of the same value: it never fails.
DecodeLatin1(b) == Decoded(b)

\* cp1252: 0x80..0x9F are remapped, five of them are undefined.
Cp1252Undefined == {129, 141, 143, 144, 157}
Cp1252High ==
    (128 :> 8364) @@ (130 :> 8218) @@ (131 :> 402) @@ (132 :> 8222) @@
    (133 :> 8230) @@ (134 :> 8224) @@ (135 :> 8225) @@ (136 :> 710) @@
    (137 :> 8240) @@ (138 :> 352) @@ (139 :> 8249) @@ (140 :> 338) @@
    (142 :> 381) @@ (145 :> 8216) @@ (146 :> 8217) @@ (147 :> 8220) @@
    (148 :> 8221) @@ (149 :> 8226) @@ (150 :> 8211) @@ (151 :> 8212) @@
    (152 :> 732) @@ (153 :> 8482) @@ (154 :> 353) @@ (155 :> 8250) @@
    (156 :> 339) @@ (158 :> 382) @@ (159 :> 376)

RECURSIVE DecodeCp1252(_)
DecodeCp1252(b) ==
    IF b = <<>> THEN Decoded(<<>>)
    ELSE IF b[1] \in Cp1252Undefined THEN DecodeFail
    ELSE LET c == IF b[1] \in DOMAIN Cp1252High THEN Cp1252High[b[1]] ELSE b[1]
             rest == DecodeCp1252(Tail(b))
         IN IF rest.ok THEN Decoded(<<c>> \o rest.text) ELSE DecodeFail

Decode(name, b) ==
    LET codec == CodecOf(name)
    IN CASE codec = "ascii" -> DecodeAscii(b)
         [] codec = "utf-8" -> DecodeUtf8(b)
         [] codec = "latin1" -> DecodeLatin1(b)
         [] codec = "cp1252" -> DecodeCp1252(b)

(***************************************************************************)
(* Row Reader: detect_encoding and read_csv_with_fallback.                 *)
(*                                                                         *)
(* A file is [bytes, chardet, ragged, openable]: its content, the encoding *)
(* chardet.detect reports for it (None when it reports none), whether a    *)
(* data row holds more fields than the header (the tokenizer's             *)
(* ParserError), and whether open() succeeds on it.                        *)
(***************************************************************************)
detect_encoding(file) ==
    IF ~file.openable THEN "utf-8"                       \* except Exception
    ELSE IF file.chardet = None THEN "utf-8"             \* encoding or 'utf-8'
    ELSE file.chardet

\* pd.read_csv(file_path, dtype=str, encoding=..., na_filter=False[, chunksize]):
\* the exception it raises ("none" when it returns) and the decoded text.
\* With chunksize the reader is built lazily: the header is read, data rows
\* are not tokenized yet.
pd_read_csv(file, encoding, chunk) ==
    IF ~file.openable THEN [exc |-> "OSError", text |-> <<>>]
    ELSE IF ~Decode(encoding, file.bytes).ok
         THEN [exc |-> "UnicodeDecodeError", text |-> <<>>]
    ELSE IF file.bytes = <<>> THEN [exc |-> "EmptyDataError", text |-> <<>>]
    ELSE IF file.ragged /\ chunk = 0 THEN [exc |-> "ParserError", text |-> <<>>]
    ELSE [exc |-> "none", text |-> Decode(encoding, file.bytes).text]

fallback_encodings(file) == <<detect_encoding(file), "utf-8", "latin1", "cp1252">>

RECURSIVE read_loop(_, _, _, _, _)
\* the for loop of read_csv_with_fallback from candidate i on
read_loop(file, chunk, encodings, i, attempts) ==
    IF i > Len(encodings)
    THEN [status |-> "raised", encoding |-> None, text |-> <<>>,
          kind |-> None, attempts |-> attempts]
    ELSE LET r == pd_read_csv(file, encodings[i], chunk)
             tried == Append(attempts, encodings[i])
         IN IF r.exc = "none"
            THEN [status |-> "returned", encoding |-> encodings[i], text |-> r.text,
                  kind |-> IF chunk = 0 THEN "DataFrame" ELSE "TextFileReader",
                  attempts |-> tried]
            ELSE read_loop(file, chunk, encodings, i + 1, tried)

read_csv_with_fallback(file, chunk) ==
    read_loop(file, chunk, fallback_encodings(file), 1, <<>>)

(***************************************************************************)
(* Column Normalizer: the static tables, clean_column_names and            *)
(* filter_and_rename_columns.  A header label is [pre, body, post].        *)
(***************************************************************************)
COLUMN_MAPPING ==
    ("Material" :> "material_id") @@
    ("Delivery #" :> "delivery_number") @@
    ("Ship-to" :> "ship_to") @@
    ("Carrier" :> "carrier_name") @@
    ("ShpPoint" :> "shipping_point") @@
    ("SO Created Date" :> "so_created_date") @@
    ("Ac.GI date" :> "ac_gi_date") @@
    ("Delivery Date" :> "delivery_date") @@
    ("IOD from 3PL" :> "iod_from_3pl") @@
    ("PlanShipSt" :> "planned_ship_start") @@
    ("S.Org(G)" :> "sales_org") @@
    ("P/O #" :> "purchase_order") @@
    ("Type" :> "record_type") @@
    ("Shipment" :> "shipment_number") @@
    ("Sold-to" :> "sold_to") @@
    ("[WE]Name1" :> "customer_name") @@
    ("[WE]State" :> "customer_state") @@
    ("Pro #" :> "pro_number") @@
    ("DOCrtDate" :> "document_created_date") @@
    ("Serial no. profile" :> "serial_no_profile") @@
    ("Ship Crt" :> "ship_crt") @@
    ("G/I Date" :> "g_i_date") @@
    ("PlanLoadSt" :> "planloadst") @@
    ("[WE]Street" :> "we_street") @@
    ("[WE]City" :> "we_city") @@
    ("[WE]Country" :> "we_country") @@
    ("[WE]Zipcode" :> "we_zipcode") @@
    ("Division" :> "division") @@
    ("Quantity" :> "quantity") @@
    ("Plan G/I (DO)" :> "plan_g_i_do_") @@
    ("Qty.Unit" :> "qty_unit") @@
    ("Delivery type" :> "delivery_type") @@
    ("DOCrtTime" :> "docrttime") @@
    ("Material Group" :> "material_group") @@
    ("Volume" :> "volume") @@
    ("Vol.Unit" :> "vol_unit") @@
    ("Weight" :> "weight") @@
    ("Wgt.Unit" :> "wgt_unit") @@
    ("ShTy" :> "shty") @@
    ("S/O #" :> "s_o_") @@
    ("S/O item#" :> "s_o_item_") @@
    ("P/O item#" :> "p_o_item_") @@
    ("Cust.Grp" :> "cust_grp") @@
    ("Escort/Txt3" :> "escort_txt3") @@
    ("ActLT" :> "actlt")

NUMERIC_COLUMNS ==
    <<"delivery_number", "sales_org", "shipment_number", "quantity",
      "volume", "weight", "s_o_", "s_o_item_", "actlt">>

DATE_COLUMNS ==
    <<"so_created_date", "ac_gi_date", "delivery_date", "iod_from_3pl",
      "planned_ship_start", "document_created_date", "ship_crt", "g_i_date",
      "planloadst", "plan_g_i_do_">>

COLUMNS_TO_DROP == <<"Status">>

Label(pre, body, post) == [pre |-> pre, body |-> body, post |-> post]

\* the label is the empty string
IsEmptyLabel(l) == l.pre = 0 /\ l.body = "" /\ l.post = 0

\* str.strip() on a label
StripLabel(l) == Label(0, l.body, 0)

\* col in self.COLUMN_MAPPING: the keys carry no surrounding whitespace
InMapping(l) == l.pre = 0 /\ l.post = 0 /\ l.body \in DOMAIN COLUMN_MAPPING

InDropList(l) == l.pre = 0 /\ l.post = 0 /\ l.body \in Range(COLUMNS_TO_DROP)

\* the labels are left untrimmed
clean_column_names_nostrip(columns) ==
    SelectIdx(columns, [i \in DOMAIN columns |-> ~IsEmptyLabel(columns[i])], 1)

\* df.loc[:, df.columns.notnull() & (df.columns != '')], then columns.str.strip()
clean_column_names(columns) ==
    LET keep == [i \in DOMAIN columns |-> ~IsEmptyLabel(columns[i])]
        kept == SelectIdx(columns, keep, 1)
    IN [i \in DOMAIN kept |-> StripLabel(kept[i])]

\* the labels clean_column_names logs as unknown
unknown_cols(columns) ==
    LET c == clean_column_names(columns)
    IN SelectIdx(c, [i \in DOMAIN c |-> ~InMapping(c[i]) /\ ~InDropList(c[i])], 1)

RECURSIVE SelectByLabels(_, _, _)
\* df[valid_cols]: every requested label selects each column of that name
SelectByLabels(columns, labels, k) ==
    IF k > Len(labels) THEN <<>>
    ELSE SelectIdx(columns, [i \in DOMAIN columns |-> columns[i] = labels[k]], 1)
         \o SelectByLabels(columns, labels, k + 1)

RECURSIVE DropAll(_, _, _)
\* for col in COLUMNS_TO_DROP: if col in df.columns: df = df.drop(columns=[col])
DropAll(columns, drop, k) ==
    IF k > Len(drop) THEN columns
    ELSE DropAll(SelectIdx(columns,
                           [i \in DOMAIN columns |-> columns[i] # Label(0, drop[k], 0)], 1),
                 drop, k + 1)

\* df.rename(columns=COLUMN_MAPPING)
RenameLabel(l) == IF InMapping(l) THEN COLUMN_MAPPING[l.body] ELSE l.body

filter_and_rename_columns(columns) ==
    LET valid_cols == SelectIdx(columns, [i \in DOMAIN columns |-> InMapping(columns[i])], 1)
        selected == SelectByLabels(columns, valid_cols, 1)
        dropped == DropAll(selected, COLUMNS_TO_DROP, 1)
    IN [i \in DOMAIN dropped |-> RenameLabel(dropped[i])]

HasDuplicates(s) == \E i, j \in DOMAIN s : i < j /\ s[i] = s[j]

(***************************************************************************)
(* Cell values and DataFrames.  A cell is a string (a sequence of          *)
(* characters), a number, or NaN/None (absent).  A DataFrame is            *)
(* [columns, rows]: the column names and, per row, one cell per column.    *)
(***************************************************************************)
Str(s) == [t |-> "str", s |-> s, n |-> 0]
Num(n) == [t |-> "num", s |-> <<>>, n |-> n]
NaN == [t |-> "nan", s |-> <<>>, n |-> 0]

isnull(c) == c.t = "nan"

DigitChars == <<"0", "1", "2", "3", "4", "5", "6", "7", "8", "9">>
IsDigit(c) == c \in Range(DigitChars)
DigitVal(c) == CHOOSE v \in 0..9 : DigitChars[v + 1] = c
IsSpace(c) == c = " "

RECURSIVE IntOf(_)
\* the value of a sequence of decimal digits
IntOf(s) == IF s = <<>> THEN 0 ELSE 10 * IntOf(SubSeq(s, 1, Len(s) - 1)) + DigitVal(s[Len(s)])

RECURSIVE Pad(_, _)
\* n in decimal, zero-padded to at least width characters
Pad(n, width) ==
    IF n < 10 /\ width <= 1 THEN <<DigitChars[n + 1]>>
    ELSE Pad(n \div 10, width - 1) \o <<DigitChars[(n % 10) + 1]>>

RECURSIVE LStrip(_)
LStrip(s) == IF s # <<>> /\ IsSpace(s[1]) THEN LStrip(Tail(s)) ELSE s

RECURSIVE RStrip(_)
RStrip(s) == IF s # <<>> /\ IsSpace(s[Len(s)]) THEN RStrip(SubSeq(s, 1, Len(s) - 1)) ELSE s

\* str.strip()
Strip(s) == RStrip(LStrip(s))

NanText == <<"n", "a", "n">>

\* astype(str) on one cell
AsTypeStr(c) ==
    CASE c.t = "str" -> c.s
      [] c.t = "num" -> Pad(c.n, 1)
      [] OTHER -> NanText

Cells(frame) == UNION { Range(frame.rows[r]) : r \in DOMAIN frame.rows }

\* df[col] = df[col].apply(f) for every column named in cols; f maps cells to cells
MapColumns(frame, cols, f) ==
    [frame EXCEPT !.rows =
        [r \in DOMAIN frame.rows |->
            [k \in DOMAIN frame.columns |->
                IF frame.columns[k] \in cols THEN f[frame.rows[r][k]]
                ELSE frame.rows[r][k]]]]

(***************************************************************************)
(* Field Cleaner: clean_string_data.                                       *)
(***************************************************************************)
clean_string_cell(c) ==
    LET stripped == Strip(AsTypeStr(c))
    IN IF stripped = NanText THEN Str(<<>>) ELSE Str(stripped)

\* every column is of dtype object when this runs: the reader reads with dtype=str
clean_string_data(frame) ==
    MapColumns(frame, Range(frame.columns),
               [c \in Cells(frame) |-> clean_string_cell(c)])

(***************************************************************************)
(* Date Normalizer: datetime.strptime, strftime and parse_date_flexible.   *)
(***************************************************************************)
\* the day-first slash pattern listed before the month-first one
date_formats_dayfirst ==
    << <<"%Y", "-", "%m", "-", "%d">>,
       <<"%d", "/", "%m", "/", "%Y">>,
       <<"%m", "/", "%d", "/", "%Y">>,
       <<"%Y", "/", "%m", "/", "%d">>,
       <<"%m", "-", "%d", "-", "%Y">>,
       <<"%d", "-", "%m", "-", "%Y">> >>

date_formats ==
    << <<"%Y", "-", "%m", "-", "%d">>,
       <<"%m", "/", "%d", "/", "%Y">>,
       <<"%d", "/", "%m", "/", "%Y">>,
       <<"%Y", "/", "%m", "/", "%d">>,
       <<"%m", "-", "%d", "-", "%Y">>,
       <<"%d", "-", "%m", "-", "%Y">> >>

At(s, i) == IF i >= 1 /\ i <= Len(s) THEN s[i] ELSE "$"

\* The alternatives of a directive's regular expression that match at pos, in
\* the order the regular expression lists them, each with its length and value:
\* %Y \d\d\d\d; %m 1[0-2]|0[1-9]|[1-9]; %d 3[01]|[12]\d|0[1-9]|[1-9]| [1-9]
Alternatives(s, pos, directive) ==
    LET a == At(s, pos)
        b == At(s, pos + 1)
        two == [len |-> 2, val |-> IF IsDigit(a) /\ IsDigit(b) THEN IntOf(<<a, b>>) ELSE 0]
        one == [len |-> 1, val |-> IF IsDigit(a) THEN DigitVal(a) ELSE 0]
    IN CASE directive = "%Y" ->
              IF \A k \in 0..3 : IsDigit(At(s, pos + k))
              THEN << [len |-> 4, val |-> IntOf(SubSeq(s, pos, pos + 3))] >>
              ELSE <<>>
         [] directive = "%m" ->
              (IF (a = "1" /\ b \in {"0", "1", "2"}) \/ (a = "0" /\ IsDigit(b) /\ b # "0")
               THEN <<two>> ELSE <<>>)
              \o (IF IsDigit(a) /\ a # "0" THEN <<one>> ELSE <<>>)
         [] directive = "%d" ->
              (IF (a = "3" /\ b \in {"0", "1"}) \/ (a \in {"1", "2"} /\ IsDigit(b))
                  \/ (a = "0" /\ IsDigit(b) /\ b # "0")
               THEN <<two>> ELSE <<>>)
              \o (IF IsDigit(a) /\ a # "0" THEN <<one>> ELSE <<>>)
              \o (IF a = " " /\ IsDigit(b) /\ b # "0"
                  THEN << [len |-> 2, val |-> DigitVal(b)] >> ELSE <<>>)

NoMatch == [ok |-> FALSE, end |-> 0, Y |-> 0, m |-> 0, d |-> 0]

RECURSIVE RegexMatch(_, _, _, _, _)
\* format_regex.match(data_string): element k of the format on, at position pos
RegexMatch(s, pos, fmt, k, got) ==
    IF k > Len(fmt) THEN [got EXCEPT !.ok = TRUE, !.end = pos]
    ELSE IF fmt[k] \in {"-", "/"}
         THEN IF At(s, pos) = fmt[k] THEN RegexMatch(s, pos + 1, fmt, k + 1, got)
              ELSE NoMatch
    ELSE LET alts == Alternatives(s, pos, fmt[k])
             try(i) == RegexMatch(s, pos + alts[i].len, fmt, k + 1,
                                  CASE fmt[k] = "%Y" -> [got EXCEPT !.Y = alts[i].val]
                                    [] fmt[k] = "%m" -> [got EXCEPT !.m = alts[i].val]
                                    [] fmt[k] = "%d" -> [got EXCEPT !.d = alts[i].val])
             good == { i \in DOMAIN alts : try(i).ok }
         IN IF good = {} THEN NoMatch
            ELSE try(CHOOSE i \in good : \A j \in good : i <= j)

IsLeap(y) == (y % 4 = 0 /\ y % 100 # 0) \/ y % 400 = 0

DaysInMonth(y, m) ==
    CASE m \in {4, 6, 9, 11} -> 30
      [] m = 2 -> IF IsLeap(y) THEN 29 ELSE 28
      [] OTHER -> 31

ValueError == [ok |-> FALSE, Y |-> 0, m |-> 0, d |-> 0]

\* datetime.strptime(data_string, fmt): the date, or ValueError
strptime(s, fmt) ==
    LET found == RegexMatch(s, 1, fmt, 1, NoMatch)
    IN IF ~found.ok THEN ValueError                      \* does not match format
       ELSE IF found.end # Len(s) + 1 THEN ValueError    \* unconverted data remains
       ELSE IF found.Y < 1 \/ found.d > DaysInMonth(found.Y, found.m)
            THEN ValueError                              \* day is out of range for month
       ELSE [ok |-> TRUE, Y |-> found.Y, m |-> found.m, d |-> found.d]

\* dt.strftime('%Y-%m-%d')
strftime(dt) == Pad(dt.Y, 4) \o <<"-">> \o Pad(dt.m, 2) \o <<"-">> \o Pad(dt.d, 2)

NaT == [ok |-> FALSE, Y |-> 0, m |-> 0, d |-> 0]

\* pd.to_datetime(date_str, errors='coerce', dayfirst=False): the permissive
\* parser is a library heuristic; it answers NaT for text without a digit, and
\* NaT or some date otherwise.
FallbackDates == { [ok |-> TRUE, Y |-> 2024, m |-> 3, d |-> 4],
                   [ok |-> TRUE, Y |-> 2003, m |-> 4, d |-> 13] }

pd_to_datetime(s) ==
    IF \E i \in DOMAIN s : IsDigit(s[i]) THEN {NaT} \cup FallbackDates ELSE {NaT}

RECURSIVE format_loop(_, _, _, _)
\* the for loop of parse_date_flexible from format k on; dt is what
\* pd.to_datetime answers if it is asked
format_loop(s, k, tried, dt) ==
    IF k > Len(date_formats)
    THEN [result |-> IF dt.ok THEN strftime(dt) ELSE <<>>,
          tried |-> tried, fallback |-> TRUE]
    ELSE LET parsed == strptime(Strip(s), date_formats[k])
         IN IF parsed.ok
            THEN [result |-> strftime(parsed), tried |-> Append(tried, k),
                  fallback |-> FALSE]
            ELSE format_loop(s, k + 1, Append(tried, k), dt)

\* parse_date_flexible with the formats it tried and whether it consulted pandas
parse_date_trace(c, dt) ==
    IF isnull(c) \/ c.s = <<>> \/ c.s = NanText
    THEN [result |-> <<>>, tried |-> <<>>, fallback |-> FALSE]
    ELSE format_loop(c.s, 1, <<>>, dt)

parse_date_flexible(c, dt) == Str(parse_date_trace(c, dt).result)

\* dt maps the text of a cell to the answer of pd.to_datetime for it
process_date_columns(frame, dt) ==
    MapColumns(frame, Range(DATE_COLUMNS),
               [c \in Cells(frame) |-> parse_date_flexible(c, dt[c.s])])

(***************************************************************************)
(* Numeric Normalizer: process_numeric_columns.                            *)
(***************************************************************************)
\* .str.replace(",", "", regex=False)
remove_commas(s) == SelectIdx(s, [i \in DOMAIN s |-> s[i] # ","], 1)

\* pd.to_numeric(value, errors='coerce') on one cell: None, or a string
to_numeric(c) ==
    IF isnull(c) THEN NaN
    ELSE IF c.s # <<>> /\ \A i \in DOMAIN c.s : IsDigit(c.s[i]) THEN Num(IntOf(c.s))
    ELSE NaN

\* the thousands separators are left in
numeric_text_keep_commas(c) == Strip(AsTypeStr(c))

\* .astype(str).str.replace(",", "", regex=False).str.strip()
numeric_text(c) == Strip(remove_commas(AsTypeStr(c)))

numeric_cell(c) ==
    LET cleaned == numeric_text(c)
        value == IF cleaned = <<>> THEN NaN ELSE Str(cleaned)   \* replace('', None)
    IN to_numeric(value)

process_numeric_columns(frame) ==
    MapColumns(frame, Range(NUMERIC_COLUMNS),
               [c \in Cells(frame) |-> numeric_cell(c)])

(***************************************************************************)
(* Validator: validate_data.                                               *)
(***************************************************************************)
validate_data(frame) ==
    LET rows == frame.rows
        all_null(r) == \A k \in DOMAIN frame.columns : isnull(rows[r][k])
        nulls(k) == Cardinality({ r \in DOMAIN rows : isnull(rows[r][k]) })
        high == [k \in DOMAIN frame.columns |-> nulls(k) * 100 > 50 * Len(rows)]
    IN [total_rows |-> Len(rows),
        empty_rows |-> Cardinality({ r \in DOMAIN rows : all_null(r) }),
        columns_with_nulls |-> SelectIdx(frame.columns, high, 1)]

(***************************************************************************)
(* Pipeline Orchestrator: clean_csv and clean_directory.                   *)
(*                                                                         *)
(* A file of the input directory is a reader's file together with its      *)
(* header labels and its number of data rows.  Its path is its index in    *)
(* the listing; its output file cleaned_<name> is out_files[index], one of *)
(* "absent", "partial", "complete".                                        *)
(***************************************************************************)
ChunkSizes == {0, 1000}

GoodFile ==
    [bytes |-> <<65>>, chardet |-> "ascii", ragged |-> FALSE, openable |-> TRUE,
     header |-> <<Label(0, "Material", 0), Label(0, "Quantity", 1),
                  Label(0, "Status", 0), Label(0, "Foo", 0)>>,
     nrows |-> 2]
Cp1252File ==
    [bytes |-> <<128>>, chardet |-> "ISO-8859-1", ragged |-> FALSE, openable |-> TRUE,
     header |-> <<Label(0, "Material", 0)>>, nrows |-> 1]
HeaderOnlyFile ==
    [bytes |-> <<65>>, chardet |-> "ascii", ragged |-> FALSE, openable |-> TRUE,
     header |-> <<Label(0, "Material", 0)>>, nrows |-> 0]
ZeroByteFile ==
    [bytes |-> <<>>, chardet |-> None, ragged |-> FALSE, openable |-> TRUE,
     header |-> <<>>, nrows |-> 0]
RaggedFile ==
    [bytes |-> <<65>>, chardet |-> "ascii", ragged |-> TRUE, openable |-> TRUE,
     header |-> <<Label(0, "Material", 0)>>, nrows |-> 1]
UnopenableFile ==
    [bytes |-> <<65>>, chardet |-> None, ragged |-> FALSE, openable |-> FALSE,
     header |-> <<Label(0, "Material", 0)>>, nrows |-> 1]
\* " Material" and "Material": distinct labels that strip to the same name
DupHeaderFile ==
    [bytes |-> <<65>>, chardet |-> "ascii", ragged |-> FALSE, openable |-> TRUE,
     header |-> <<Label(1, "Material", 0), Label(0, "Material", 0)>>, nrows |-> 1]

FileKinds == {GoodFile, Cp1252File, HeaderOnlyFile, ZeroByteFile, RaggedFile,
              UnopenableFile, DupHeaderFile}

ZeroStats == [files_processed |-> 0, rows_processed |-> 0, errors |-> <<>>]
NoFrame == [columns |-> <<>>, nrows |-> 0]

\* the handler logs the error without recording it
record_error_dropped(st, path, cause) == st

\* self.stats['errors'].append(f"Failed to clean {input_path}: {str(e)}")
record_error(st, path, cause) ==
    [st EXCEPT !.errors = Append(@, [path |-> path, cause |-> cause])]

\* the row count is left out of the update
record_success_norows(st, nrows) == [st EXCEPT !.files_processed = @ + 1]

\* self.stats['files_processed'] += 1; self.stats['rows_processed'] += len(df)
record_success(st, nrows) ==
    [st EXCEPT !.files_processed = @ + 1, !.rows_processed = @ + nrows]

\* clean_csv has returned: the for loop of clean_directory takes the next file,
\* or clean_directory returns self.stats
NextFile ==
    /\ idx' = idx + 1
    /\ pc' = IF idx = Len(csv_files) THEN "returned" ELSE "read"

\* except Exception as e: log, record the error, return False
Except(cause) ==
    /\ stats' = record_error(stats, idx, cause)
    /\ calls' = Append(calls, [path |-> idx, ret |-> FALSE, raised |-> TRUE,
                               rows |-> 0, stage |-> pc])
    /\ df' = NoFrame
    /\ NextFile

\* clean_directory up to its first clean_csv call
CleanDirectory ==
    /\ pc = "idle"
    /\ \E exists \in BOOLEAN, mkdir_ok \in BOOLEAN, files \in SeqsUpTo(FileKinds, MaxFiles) :
          IF ~exists
          THEN /\ pc' = "returned"                    \* input directory does not exist
               /\ UNCHANGED <<csv_files, out_files, idx>>
          ELSE IF ~mkdir_ok
          THEN /\ pc' = "raised"                      \* output_path.mkdir raises
               /\ UNCHANGED <<csv_files, out_files, idx>>
          ELSE /\ csv_files' = files
               /\ out_files' = [i \in DOMAIN files |-> "absent"]
               /\ idx' = 1
               /\ pc' = IF files = <<>> THEN "returned" ELSE "read"
    /\ UNCHANGED <<chunk_size, stats, df, calls, pureVars>>

\* clean_csv: read_csv_with_fallback and the df.empty test
ReadFile ==
    /\ pc = "read"
    /\ LET file == csv_files[idx]
           r == read_csv_with_fallback(file, chunk_size)
       IN IF r.status = "raised"
          THEN Except("read_csv_with_fallback") /\ UNCHANGED <<out_files>>
          ELSE IF r.kind = "TextFileReader"
          THEN Except("AttributeError: empty") /\ UNCHANGED <<out_files>>
          ELSE IF file.nrows = 0
          THEN /\ calls' = Append(calls, [path |-> idx, ret |-> FALSE, raised |-> FALSE,
                                          rows |-> 0, stage |-> pc])
               /\ NextFile
               /\ UNCHANGED <<stats, df, out_files>>
          ELSE /\ df' = [columns |-> file.header, nrows |-> file.nrows]
               /\ pc' = "pipeline"
               /\ UNCHANGED <<stats, calls, idx, out_files>>
    /\ UNCHANGED <<chunk_size, csv_files, pureVars>>

\* clean_csv: clean_column_names .. validate_data.  Only clean_string_data can
\* raise: df[col] is a DataFrame, without dtype, when two columns share a name.
Pipeline ==
    /\ pc = "pipeline"
    /\ LET columns == filter_and_rename_columns(clean_column_names(df.columns))
       IN IF HasDuplicates(columns)
          THEN Except("AttributeError: dtype")
          ELSE /\ df' = [df EXCEPT !.columns = columns]
               /\ pc' = "write"
               /\ UNCHANGED <<stats, calls, idx>>
    /\ UNCHANGED <<chunk_size, csv_files, out_files, pureVars>>

\* clean_csv: parent.mkdir and df.to_csv(output_path).  to_csv opens the
\* output file itself and writes into it: an error before the open leaves no
\* file, an error while writing leaves what was written so far.
WriteStates == {"ok", "open_error", "write_error"}

written(outcome) ==
    CASE outcome = "ok" -> "complete"
      [] outcome = "open_error" -> "absent"
      [] outcome = "write_error" -> "partial"

WriteOutput ==
    /\ pc = "write"
    /\ \E outcome \in WriteStates :
          /\ out_files' = [out_files EXCEPT ![idx] = written(outcome)]
          /\ IF outcome = "ok"
             THEN pc' = "stats" /\ UNCHANGED <<stats, calls, idx, df>>
             ELSE Except(outcome)
    /\ UNCHANGED <<chunk_size, csv_files, pureVars>>

\* clean_csv: the statistics update and return True
UpdateStats ==
    /\ pc = "stats"
    /\ stats' = record_success(stats, df.nrows)
    /\ calls' = Append(calls, [path |-> idx, ret |-> TRUE, raised |-> FALSE,
                               rows |-> df.nrows, stage |-> pc])
    /\ df' = NoFrame
    /\ NextFile
    /\ UNCHANGED <<chunk_size, csv_files, out_files, pureVars>>

(***************************************************************************)
(* Specifications.  Spec is a directory run of one CSVCleaner; the others  *)
(* apply one function of the pipeline to inputs drawn from bounded sets.   *)
(***************************************************************************)
PendingRead == [status |-> "pending", encoding |-> None, text |-> <<>>,
                kind |-> None, attempts |-> <<>>]
NoFile == [bytes |-> <<>>, chardet |-> None, ragged |-> FALSE, openable |-> TRUE]
PendingDate == [status |-> "pending", result |-> <<>>, tried |-> <<>>, fallback |-> FALSE]
NoTable == [columns |-> <<>>, rows |-> <<>>]
NoReport == [total_rows |-> 0, empty_rows |-> 0, columns_with_nulls |-> <<>>]

DirIdle ==
    /\ stats = ZeroStats /\ csv_files = <<>> /\ out_files = <<>>
    /\ pc = "off" /\ idx = 0 /\ df = NoFrame /\ calls = <<>>
ReadIdle == rd_in = [file |-> NoFile, true_encoding |-> "utf-8"] /\ rd_out = PendingRead
DateIdle == date_in = Str(<<>>) /\ date_out = PendingDate
HdrIdle == hdr_in = <<>> /\ hdr_out = [stage |-> "off", columns |-> <<>>]
NumIdle == num_in = NoTable /\ num_out = [stage |-> "off", frame |-> NoTable]
ValIdle == val_in = NoTable
           /\ val_out = [stage |-> "off", frame |-> NoTable, report |-> NoReport]

\* ---- the directory run
Init ==
    /\ chunk_size \in ChunkSizes
    /\ stats = ZeroStats /\ csv_files = <<>> /\ out_files = <<>>
    /\ pc = "idle" /\ idx = 0 /\ df = NoFrame /\ calls = <<>>
    /\ ReadIdle /\ DateIdle /\ HdrIdle /\ NumIdle /\ ValIdle

Next == CleanDirectory \/ ReadFile \/ Pipeline \/ WriteOutput \/ UpdateStats

Spec == Init /\ [][Next]_vars

\* ---- one call of read_csv_with_fallback
ByteAlphabet == {65, 128, 129, 169, 195, 233}
ChardetNames == {None, "ascii", "utf-8", "ISO-8859-1", "Windows-1252"}
Codecs == {"ascii", "utf-8", "latin1", "cp1252"}

ReadFiles ==
    [bytes : SeqsUpTo(ByteAlphabet, MaxBytes), chardet : ChardetNames,
     ragged : BOOLEAN, openable : BOOLEAN]

ReadInit ==
    /\ chunk_size \in ChunkSizes
    /\ rd_in \in [file : ReadFiles, true_encoding : Codecs]
    /\ rd_out = PendingRead
    /\ DirIdle /\ DateIdle /\ HdrIdle /\ NumIdle /\ ValIdle

ReadCsv ==
    /\ rd_out.status = "pending"
    /\ rd_out' = read_csv_with_fallback(rd_in.file, chunk_size)
    /\ UNCHANGED <<chunk_size, dirVars, rd_in, dateVars, hdrVars, numVars, valVars>>

ReadNext == ReadCsv

SpecRead == ReadInit /\ [][ReadNext]_vars

\* ---- one call of parse_date_flexible
DateFields == { <<"2", "0", "2", "4">>, <<"2", "0", "2", "3">>, <<"0", "3">>,
                <<"0", "4">>, <<"4">>, <<"1", "3">>, <<"3", "1">>, <<"0", "2">>,
                <<"2", "9">> }
DateSeparators == {"-", "/"}
DateTexts ==
    { a \o <<p>> \o b \o <<q>> \o c :
        <<a, b, c>> \in DateFields \X DateFields \X DateFields,
        <<p, q>> \in DateSeparators \X DateSeparators }
    \cup { <<>>, NanText, <<"x">>, <<" ">> }
    \cup { <<" ">> \o a \o <<"/">> \o b \o <<"/">> \o c \o <<" ">> :
             <<a, b, c>> \in { <<"0", "3">> } \X { <<"0", "4">> } \X { <<"2", "0", "2", "4">> } }

DateInit ==
    /\ date_in \in { Str(s) : s \in DateTexts }
    /\ date_out = PendingDate
    /\ chunk_size = 0
    /\ DirIdle /\ ReadIdle /\ HdrIdle /\ NumIdle /\ ValIdle

ParseDate ==
    /\ date_out.status = "pending"
    /\ \E dt \in pd_to_datetime(date_in.s) :
          LET r == parse_date_trace(date_in, dt)
          IN date_out' = [status |-> "done", result |-> r.result,
                          tried |-> r.tried, fallback |-> r.fallback]
    /\ UNCHANGED <<chunk_size, dirVars, readVars, date_in, hdrVars, numVars, valVars>>

DateNext == ParseDate

SpecDate == DateInit /\ [][DateNext]_vars

\* ---- clean_column_names, then filter_and_rename_columns, on one header
LabelBodies == {"Material", "Status", "Foo", ""}
\* read_csv names a blank header cell "Unnamed: k" and numbers repeated
\* labels: the labels of a header are distinct and none is the empty string
Labels == { l \in [pre : 0..1, body : LabelBodies, post : 0..1] : ~IsEmptyLabel(l) }
Headers == { h \in SeqsUpTo(Labels, MaxHeader) : ~HasDuplicates(h) }

HdrInit ==
    /\ hdr_in \in Headers
    /\ hdr_out = [stage |-> "read", columns |-> hdr_in]
    /\ chunk_size = 0
    /\ DirIdle /\ ReadIdle /\ DateIdle /\ NumIdle /\ ValIdle

CleanColumnNames ==
    /\ hdr_out.stage = "read"
    /\ hdr_out' = [stage |-> "cleaned", columns |-> clean_column_names(hdr_out.columns)]
    /\ UNCHANGED <<chunk_size, dirVars, readVars, dateVars, hdr_in, numVars, valVars>>

FilterAndRenameColumns ==
    /\ hdr_out.stage = "cleaned"
    /\ hdr_out' = [stage |-> "renamed",
                   columns |-> filter_and_rename_columns(hdr_out.columns)]
    /\ UNCHANGED <<chunk_size, dirVars, readVars, dateVars, hdr_in, numVars, valVars>>

HdrNext == CleanColumnNames \/ FilterAndRenameColumns

SpecHeader == HdrInit /\ [][HdrNext]_vars

\* ---- process_numeric_columns on a frame of one row
NumAlphabet == {"1", "2", "3", "4", ",", " ", "x"}
NumTexts == SeqsUpTo(NumAlphabet, MaxValLen)

NumInit ==
    /\ num_in \in { [columns |-> <<"quantity", "material_id">>,
                     rows |-> << <<Str(s), Str(s)>> >>] : s \in NumTexts }
    /\ num_out = [stage |-> "cleaned", frame |-> num_in]
    /\ chunk_size = 0
    /\ DirIdle /\ ReadIdle /\ DateIdle /\ HdrIdle /\ ValIdle

ProcessNumericColumns ==
    /\ num_out.stage = "cleaned"
    /\ num_out' = [stage |-> "numeric", frame |-> process_numeric_columns(num_out.frame)]
    /\ UNCHANGED <<chunk_size, dirVars, readVars, dateVars, hdrVars, num_in, valVars>>

NumNext == ProcessNumericColumns

SpecNumeric == NumInit /\ [][NumNext]_vars

\* ---- the typed stages of clean_csv, then validate_data, on one frame
ValColumnSets == { <<>>, <<"material_id">>, <<"ac_gi_date">>, <<"quantity">>,
                   <<"material_id", "ac_gi_date">>, <<"material_id", "quantity">>,
                   <<"ac_gi_date", "quantity">>,
                   <<"material_id", "ac_gi_date", "quantity">> }
ValTexts == { <<>>, <<" ">>, <<"7">> }

ValFrames ==
    UNION { { [columns |-> cols, rows |-> rows] :
                rows \in [1..n -> [DOMAIN cols -> { Str(s) : s \in ValTexts }]] } :
            cols \in ValColumnSets, n \in 1..MaxRows }

ValInit ==
    /\ val_in \in ValFrames
    /\ val_out = [stage |-> "renamed", frame |-> val_in, report |-> NoReport]
    /\ chunk_size = 0
    /\ DirIdle /\ ReadIdle /\ DateIdle /\ HdrIdle /\ NumIdle

ValUnchanged == UNCHANGED <<chunk_size, dirVars, readVars, dateVars, hdrVars, numVars, val_in>>

CleanStringData ==
    /\ val_out.stage = "renamed"
    /\ val_out' = [val_out EXCEPT !.stage = "strings",
                                  !.frame = clean_string_data(val_out.frame)]
    /\ ValUnchanged

ProcessDateColumns ==
    /\ val_out.stage = "strings"
    /\ \E dt \in [{ c.s : c \in Cells(val_out.frame) } -> {NaT} \cup FallbackDates] :
          /\ \A s \in DOMAIN dt : dt[s] \in pd_to_datetime(s)
          /\ val_out' = [val_out EXCEPT !.stage = "dates",
                                        !.frame = process_date_columns(val_out.frame, dt)]
    /\ ValUnchanged

ValNumericColumns ==
    /\ val_out.stage = "dates"
    /\ val_out' = [val_out EXCEPT !.stage = "numeric",
                                  !.frame = process_numeric_columns(val_out.frame)]
    /\ ValUnchanged

ValidateData ==
    /\ val_out.stage = "numeric"
    /\ val_out' = [val_out EXCEPT !.stage = "validated",
                                  !.report = validate_data(val_out.frame)]
    /\ ValUnchanged

ValNext == CleanStringData \/ ProcessDateColumns \/ ValNumericColumns \/ ValidateData

SpecValidate == ValInit /\ [][ValNext]_vars

(***************************************************************************)
(* Properties.                                                             *)
(***************************************************************************)
IsPrefix(s, t) == Len(s) <= Len(t) /\ \A i \in DOMAIN s : s[i] = t[i]

RECURSIVE Dedup(_)
\* s without repeated elements, first occurrences kept in order
Dedup(s) ==
    IF s = <<>> THEN <<>>
    ELSE LET front == Dedup(SubSeq(s, 1, Len(s) - 1))
         IN IF s[Len(s)] \in Range(front) THEN front ELSE Append(front, s[Len(s)])

ErrorsFor(i) == { k \in DOMAIN stats.errors : stats.errors[k].path = i }
Raised == { i \in DOMAIN calls : calls[i].raised }
Succeeded == { i \in DOMAIN calls : calls[i].ret }

RECURSIVE SumRows(_)
SumRows(cs) ==
    IF cs = <<>> THEN 0
    ELSE (IF cs[Len(cs)].ret THEN cs[Len(cs)].rows ELSE 0) + SumRows(SubSeq(cs, 1, Len(cs) - 1))

\* the file at index i parses (outside chunked mode) and has no data row
ReadsEmpty(i) ==
    /\ read_csv_with_fallback(csv_files[i], chunk_size).status = "returned"
    /\ csv_files[i].nrows = 0

C2_OutputAllOrNothing ==
    \A i \in DOMAIN calls :
        ~(ReadsEmpty(i) /\ ~calls[i].raised) =>
            \/ out_files[i] = "complete" /\ calls[i].ret
            \/ out_files[i] = "absent" /\ ~calls[i].ret /\ ErrorsFor(i) # {}

\* C3: a file that is read successfully but has no data row is skipped:
\* clean_csv returns False at the empty test, writes no output, appends no
\* error, and the directory run goes on with the next file.
C3_EmptyFileSkippedWithoutError ==
    \A i \in DOMAIN calls :
        ReadsEmpty(i) =>
            /\ ~calls[i].ret /\ ~calls[i].raised /\ calls[i].stage = "read"
            /\ out_files[i] = "absent"
            /\ ErrorsFor(i) = {}
            /\ (pc = "returned" => Len(calls) = Len(csv_files))

\* C4: a file whose true encoding is one of the candidates of the chain is
\* returned decoded with its true encoding, whatever the detector guessed.
C4_ReadWithTrueEncoding ==
    LET file == rd_in.file
        chain == <<detect_encoding(file), "utf-8", "latin1", "cp1252">>
        truth == Decode(rd_in.true_encoding, file.bytes)
    IN (/\ rd_out.status # "pending"
        /\ file.openable /\ ~file.ragged /\ file.bytes # <<>>
        /\ rd_in.true_encoding \in { CodecOf(chain[k]) : k \in DOMAIN chain }
        /\ truth.ok)
       => rd_out.status = "returned" /\ rd_out.text = truth.text

\* C5: the encodings attempted are a prefix of [guess, utf-8, latin1, cp1252]
\* with duplicates removed: none is attempted twice, the attempts stop at the
\* first candidate that reads, and the read raises only after every candidate
\* has failed.
C5_AttemptsFollowDedupedChain ==
    LET file == rd_in.file
        chain == Dedup(<<detect_encoding(file), "utf-8", "latin1", "cp1252">>)
        attempts == rd_out.attempts
    IN rd_out.status # "pending" =>
          /\ IsPrefix(attempts, chain)
          /\ ~HasDuplicates(attempts)
          /\ \A k \in DOMAIN attempts :
                pd_read_csv(file, attempts[k], chunk_size).exc = "none" => k = Len(attempts)
          /\ rd_out.status = "raised" =>
                \A k \in DOMAIN chain : pd_read_csv(file, chain[k], chunk_size).exc # "none"

Text_03_04_2024 == <<"0", "3", "/", "0", "4", "/", "2", "0", "2", "4">>
Text_2024_03_04 == <<"2", "0", "2", "4", "-", "0", "3", "-", "0", "4">>

\* the patterns in the order the specification lists them
C6_Patterns ==
    << <<"%Y", "-", "%m", "-", "%d">>, <<"%m", "/", "%d", "/", "%Y">>,
       <<"%d", "/", "%m", "/", "%Y">>, <<"%Y", "/", "%m", "/", "%d">>,
       <<"%m", "-", "%d", "-", "%Y">>, <<"%d", "-", "%m", "-", "%Y">> >>

C6_Matching == { k \in DOMAIN C6_Patterns : strptime(Strip(date_in.s), C6_Patterns[k]).ok }

\* C6: the six patterns are tried in the order YYYY-MM-DD, MM/DD/YYYY,
\* DD/MM/YYYY, YYYY/MM/DD, MM-DD-YYYY, DD-MM-YYYY; for an input that matches
\* some pattern the result is the date of the earliest matching pattern as
\* YYYY-MM-DD (03/04/2024 gives 2024-03-04), no later pattern is tried and the
\* permissive parser is not consulted.
C6_EarliestPatternWins ==
    (date_out.status = "done" /\ C6_Matching # {}) =>
        LET first == CHOOSE k \in C6_Matching : \A j \in C6_Matching : k <= j
        IN /\ date_out.result = strftime(strptime(Strip(date_in.s), C6_Patterns[first]))
           /\ date_out.tried = [k \in 1..first |-> k]
           /\ ~date_out.fallback
           /\ (date_in.s = Text_03_04_2024 => date_out.result = Text_2024_03_04)

C6_Witness ==
    /\ date_out.status = "done"
    /\ date_in.s = Text_03_04_2024
    /\ C6_Matching = {2, 3}
    /\ date_out.result = Text_2024_03_04

\* C7: every row of the input whose mapped fields are all the empty string is
\* counted in empty_rows of the report of validate_data.
C7_EmptyRowsCounted ==
    val_out.stage = "validated" =>
        val_out.report.empty_rows >=
            Cardinality({ r \in DOMAIN val_in.rows :
                            \A k \in DOMAIN val_in.columns : val_in.rows[r][k].s = <<>> })

\* C8: the columns left by clean_column_names and filter_and_rename_columns
\* are exactly the canonical identifiers of the trimmed labels that are keys of
\* COLUMN_MAPPING and are not in COLUMNS_TO_DROP; a label of neither table
\* never appears in the output.
C8_OutputColumnsAreMappedLabels ==
    hdr_out.stage = "renamed" =>
        Range(hdr_out.columns) =
            { COLUMN_MAPPING[l.body] :
                l \in { h \in Range(hdr_in) : /\ h.body \in DOMAIN COLUMN_MAPPING
                                              /\ h.body \notin Range(COLUMNS_TO_DROP) } }

C8_Witness ==
    /\ hdr_out.stage = "renamed"
    /\ hdr_in = <<Label(1, "Material", 1), Label(0, "Status", 0), Label(0, "Foo", 0)>>
    /\ hdr_out.columns = <<"material_id">>

Text_1_234 == <<"1", ",", "2", "3", "4">>

\* C9: a value of a numeric column has its commas and surrounding whitespace
\* removed; an empty result becomes absent (not 0), a result of digits becomes
\* that number ("1,234" becomes 1234), anything else becomes absent; the
\* row is kept whatever the value and the other columns are left alone.
C9_NumericCleaning ==
    num_out.stage = "numeric" =>
        LET raw == num_in.rows[1][1].s
            text == Strip(SelectIdx(raw, [i \in DOMAIN raw |-> raw[i] # ","], 1))
            out == num_out.frame.rows[1][1]
        IN /\ (text = <<>> => out = NaN)
           /\ (text # <<>> /\ (\A i \in DOMAIN text : IsDigit(text[i]))
                 => out = Num(IntOf(text)))
           /\ (text # <<>> /\ (\E i \in DOMAIN text : ~IsDigit(text[i])) => out = NaN)
           /\ (raw = Text_1_234 => out = Num(1234))
           /\ num_out.frame.columns = num_in.columns
           /\ Len(num_out.frame.rows) = Len(num_in.rows)
           /\ num_out.frame.rows[1][2] = num_in.rows[1][2]

C9_Witness ==
    /\ num_out.stage = "numeric"
    /\ num_in.rows[1][1].s = Text_1_234
    /\ num_out.frame.rows[1][1] = Num(1234)

C10_StatsMatchCalls ==
    /\ stats.files_processed = Cardinality(Succeeded)
    /\ stats.rows_processed = SumRows(calls)
    /\ Len(stats.errors) = Cardinality(Raised)
    /\ \A i \in DOMAIN calls : ~(calls[i].ret /\ calls[i].raised)

C10_StatsStep ==
    /\ stats'.files_processed >= stats.files_processed
    /\ stats'.rows_processed >= stats.rows_processed
    /\ IsPrefix(stats.errors, stats'.errors)
    /\ ~(stats'.files_processed # stats.files_processed /\ stats'.errors # stats.errors)
    /\ (stats'.files_processed # stats.files_processed
          \/ stats'.rows_processed # stats.rows_processed)
         => /\ pc = "stats" /\ out_files[idx] = "complete"
            /\ stats'.files_processed = stats.files_processed + 1
            /\ stats'.rows_processed = stats.rows_processed + df.nrows

\* C10: the statistics agree with the outcomes of the clean_csv calls so far:
\* files_processed counts the calls that returned True, rows_processed sums
\* their rows, errors has one entry per call that ended in the handler; no
\* call changes both files_processed and errors, the counters never decrease,
\* errors only grows at its end, and the counters change only after the
\* output file has been written completely.
C10_StatsConsistent ==
    C10_StatsMatchCalls /\ [][C10_StatsMatchCalls' /\ C10_StatsStep]_vars

C10_Witness ==
    /\ pc = "returned"
    /\ stats.files_processed = 2 /\ stats.rows_processed = 3
    /\ Len(stats.errors) = 1

====
